---------------------------- MODULE Spec2Model ----------------------------
(***************************************************************************)
(* Model of enwiki/cfdw.py: the bot that processes "Categories for         *)
(* discussion/Working" pages.  A working page is parsed into instructions  *)
(* (CFDWPage.parse, _parse_section, _parse_line), the instructions are     *)
(* screened for conflicts and checked (CFDWPage._check_run,                *)
(* check_instruction) and each surviving instruction is carried out        *)
(* (do_instruction, CfdBot.treat_page, delete_page, redirect_cat,          *)
(* remove_cfd_tpl, add_old_cfd).                                           *)
(*                                                                         *)
(* The wiki is the environment: categories, member pages, talk pages, the  *)
(* category membership index and the discussion page.  Reads and writes of *)
(* the wiki are taken to succeed.                                          *)
(***************************************************************************)
EXTENDS Integers, Sequences, FiniteSets, TLC

\* ------------------------------------------------------------- bounds
NumCats == 2
NumPages == 2
MaxNew == 2
MaxOdd == 1
MaxLinks == 3
MaxText == 2
MaxSections == 2

Cats == 1..NumCats
Pages == 1..NumPages
None == 0

\* ------------------------------------------------------------- helpers
Range(s) == {s[i] : i \in 1..Len(s)}

Max(S) == CHOOSE x \in S : \A y \in S : y <= x

RECURSIVE InsertDesc(_, _)
InsertDesc(x, s) ==
    IF s = <<>> THEN <<x>>
    ELSE IF x >= Head(s) THEN <<x>> \o s
    ELSE <<Head(s)>> \o InsertDesc(x, Tail(s))

\* sorted(new_cats, reverse=True)
RECURSIVE SortedReverse(_)
SortedReverse(s) ==
    IF s = <<>> THEN <<>> ELSE InsertDesc(Head(s), SortedReverse(Tail(s)))

\* ------------------------------------------------------------- constants of the program
MODES == <<"move", "merge", "empty", "retain">>

\* ------------------------------------------------------------- member page text
\* A member page is the sequence of its category links:
\*   cat   the category the link names
\*   key   the sort key after the pipe (0: none)
\*   colon TRUE for a [[:Category:X]] link, which does not categorise
CatLink(c) == [cat |-> c, key |-> 0, colon |-> FALSE]

\* InsertTargets without the test 'cat not in cats': every target is
\* inserted, referenced already or not.
RECURSIVE InsertTargetsAll(_, _, _, _)
InsertTargetsAll(text, at, new_cats, cats) ==
    IF new_cats = <<>> THEN text
    ELSE InsertTargetsAll(SubSeq(text, 1, at) \o <<CatLink(Head(new_cats))>>
                             \o SubSeq(text, at + 1, Len(text)),
                          at, Tail(new_cats), cats)

\* wikicode.insert_after(old_cat_link, '\n' + cat.aslink()) for every target
\* not in cats; each insertion lands right after the old link.
RECURSIVE InsertTargets(_, _, _, _)
InsertTargets(text, at, new_cats, cats) ==
    IF new_cats = <<>> THEN text
    ELSE LET cat == Head(new_cats)
             t1 == IF cat \in cats THEN text
                   ELSE SubSeq(text, 1, at) \o <<CatLink(cat)>>
                        \o SubSeq(text, at + 1, Len(text))
         IN InsertTargets(t1, at, Tail(new_cats), cats)

\* replaceExcept(str(wikicode), old_cat_regex, ''): every textual occurrence
\* of the old link is removed.
RemoveLink(text, link) == SelectSeq(text, LAMBDA l : l # link)

\* treat_page with [[:Category:X]] links taken for category links (the
\* test for the leading colon lost).
treat_page_colon_links(text, old_cat, new_cats) ==
    LET real == 1..Len(text)
        cats == {text[i].cat : i \in real}
        hits == {i \in real : text[i].cat = old_cat}
        sorted == SortedReverse(new_cats)
    IN IF hits = {} THEN [found |-> FALSE, text |-> text]
       ELSE LET at == Max(hits)
                old_cat_link == text[at]
            IN IF Len(sorted) = 1 /\ sorted[1] \notin cats
               THEN [found |-> TRUE,
                     text |-> [text EXCEPT ![at].cat = sorted[1]]]
               ELSE [found |-> TRUE,
                     text |-> RemoveLink(InsertTargets(text, at, sorted, cats),
                                         old_cat_link)]

\* treat_page with the link replaced by a new link to the target in the
\* 1:1 case, instead of its title being updated.
treat_page_new_link(text, old_cat, new_cats) ==
    LET real == {i \in 1..Len(text) : ~text[i].colon}
        cats == {text[i].cat : i \in real}
        hits == {i \in real : text[i].cat = old_cat}
        sorted == SortedReverse(new_cats)
    IN IF hits = {} THEN [found |-> FALSE, text |-> text]
       ELSE LET at == Max(hits)
                old_cat_link == text[at]
            IN IF Len(sorted) = 1 /\ sorted[1] \notin cats
               THEN [found |-> TRUE,
                     text |-> [text EXCEPT ![at] = CatLink(sorted[1])]]
               ELSE [found |-> TRUE,
                     text |-> RemoveLink(InsertTargets(text, at, sorted, cats),
                                         old_cat_link)]

\* treat_page without the return when the old category is not linked: the
\* text goes to put_current as it is.
treat_page_saves_unfound(text, old_cat, new_cats) ==
    LET real == {i \in 1..Len(text) : ~text[i].colon}
        cats == {text[i].cat : i \in real}
        hits == {i \in real : text[i].cat = old_cat}
        sorted == SortedReverse(new_cats)
    IN IF hits = {} THEN [found |-> TRUE, text |-> text]
       ELSE LET at == Max(hits)
                old_cat_link == text[at]
            IN IF Len(sorted) = 1 /\ sorted[1] \notin cats
               THEN [found |-> TRUE,
                     text |-> [text EXCEPT ![at].cat = sorted[1]]]
               ELSE [found |-> TRUE,
                     text |-> RemoveLink(InsertTargets(text, at, sorted, cats),
                                         old_cat_link)]

\* CfdBot.treat_page on a page text.  new_cats is the instruction's list;
\* CfdBot.__init__ sorts it in reverse.  Returns the text to save, or
\* found = FALSE when the old category is not linked (nothing is saved).
treat_page(text, old_cat, new_cats) ==
    LET real == {i \in 1..Len(text) : ~text[i].colon}
        cats == {text[i].cat : i \in real}
        hits == {i \in real : text[i].cat = old_cat}
        sorted == SortedReverse(new_cats)
    IN IF hits = {} THEN [found |-> FALSE, text |-> text]
       ELSE LET at == Max(hits)
                old_cat_link == text[at]
            IN IF Len(sorted) = 1 /\ sorted[1] \notin cats
               THEN [found |-> TRUE,
                     text |-> [text EXCEPT ![at].cat = sorted[1]]]
               ELSE [found |-> TRUE,
                     text |-> RemoveLink(InsertTargets(text, at, sorted, cats),
                                         old_cat_link)]

\* ------------------------------------------------------------- discussion pages
\* A CFD page reference: the discussion page and its section (None: the
\* whole page).  The text of a discussion page is its level-4 sections:
\*   title    the heading; a category number when the heading is that
\*            category's title, OtherTitle otherwise
\*   parts    the number of pieces str(section).split('(UTC)') yields
\*   nom      the categories linked in the second piece (the nomination)
\*   result   the text after "The result of the discussion was:" ("" if no
\*            line carries one)
\*   propose  the categories linked on a line that has a "Propose ..."
CfdPages == {1}
OtherTitle == NumCats + 1
Titles == Cats \cup {OtherTitle}

CfdRef(p, sec) == [page |-> p, section |-> sec]
NoCfd == CfdRef(None, None)

\* find_in_sections in two passes: every heading is compared before any
\* nomination is read.
find_in_sections_headings_first(self, sections, category) ==
    LET heads == {i \in 1..Len(sections) : sections[i].title = category}
        noms == {i \in 1..Len(sections) :
                    sections[i].parts >= 3 /\ category \in sections[i].nom}
        first(S) == CHOOSE i \in S : \A j \in S : i <= j
    IN IF heads # {} THEN CfdRef(self.page, sections[first(heads)].title)
       ELSE IF noms # {} THEN CfdRef(self.page, sections[first(noms)].title)
       ELSE self

\* CfdPage.find_discussion
RECURSIVE find_in_sections(_, _, _)
find_in_sections(self, sections, category) ==
    IF sections = <<>> THEN self
    ELSE LET section == Head(sections)
             discussion == CfdRef(self.page, section.title)
         IN IF category = section.title THEN discussion
            ELSE IF section.parts < 3
                 THEN find_in_sections(self, Tail(sections), category)
            ELSE IF category \in section.nom THEN discussion
            ELSE find_in_sections(self, Tail(sections), category)

find_discussion(self, text, category) ==
    IF self.section # None THEN self
    ELSE find_in_sections(self, text, category)

\* The first level-4 section whose heading equals self.section(), or None.
SectionOf(self, text) ==
    LET hits == {i \in 1..Len(text) : text[i].title = self.section}
    IN IF hits = {} THEN None ELSE CHOOSE i \in hits : \A j \in hits : i <= j

\* CfdPage.get_action
get_action(self, text, category) ==
    IF self.section = None THEN ""
    ELSE LET i == SectionOf(self, text)
         IN IF i = None THEN ""
            ELSE IF category \in text[i].propose THEN "renaming" ELSE ""

\* CfdPage.get_result
get_result(self, text) ==
    IF self.section = None THEN ""
    ELSE LET i == SectionOf(self, text)
         IN IF i = None THEN "" ELSE text[i].result

\* ------------------------------------------------------------- working page
\* A working page is a sequence of sections; a section has the set of mode
\* keywords its heading contains and its lines; a line is a sequence of
\* top-level nodes.  Text is kept as the set of the tokens the code looks
\* for in it, "other" standing for any other non-blank text; {} is blank.
Tokens == {"NO BOT", "REDIRECT", "no consensus", "not", "keep", "other"}

TextNode(t) == [type |-> "Text", text |-> t, cat |-> None, cfd |-> NoCfd]
CatNode(c) == [type |-> "Wikilink", text |-> {}, cat |-> c, cfd |-> NoCfd]
CfdNode(ref) == [type |-> "Wikilink", text |-> {}, cat |-> None, cfd |-> ref]
\* a link to a page that is neither a category nor a CFD page
BadNode == [type |-> "Wikilink", text |-> {}, cat |-> None, cfd |-> NoCfd]
TemplateNode == [type |-> "Template", text |-> {}, cat |-> None, cfd |-> NoCfd]

LineResults(cfd, old, new, pre, suf, lf, err) ==
    [cfd_page |-> cfd, old_cat |-> old, new_cats |-> new, prefix |-> pre,
     suffix |-> suf, link_found |-> lf, raised |-> err]

\* One turn of the loop of CFDWPage._parse_line.
parse_node(results, node, last) ==
    IF results.raised THEN results
    ELSE IF node.type = "Text"
         THEN IF ~results.link_found
              THEN [results EXCEPT !.prefix = node.text]
              ELSE IF last THEN [results EXCEPT !.suffix = node.text]
              ELSE results
    ELSE IF node.type = "Wikilink"
         THEN IF node.cat # None
              THEN IF results.old_cat = None
                   THEN [results EXCEPT !.link_found = TRUE,
                                        !.old_cat = node.cat]
                   ELSE [results EXCEPT !.link_found = TRUE,
                                        !.new_cats = Append(@, node.cat)]
              ELSE IF node.cfd # NoCfd
                   THEN [results EXCEPT !.link_found = TRUE,
                                        !.cfd_page = node.cfd]
                   \* CfdPage.__init__ raises ValueError
                   ELSE [results EXCEPT !.link_found = TRUE,
                                        !.raised = TRUE]
    ELSE results

RECURSIVE parse_nodes(_, _, _)
parse_nodes(results, nodes, index) ==
    IF index > Len(nodes) THEN results
    ELSE parse_nodes(parse_node(results, nodes[index], index = Len(nodes)),
                     nodes, index + 1)

\* CFDWPage._parse_line
_parse_line(line) ==
    parse_nodes(LineResults(NoCfd, None, <<>>, {}, {}, FALSE, FALSE), line, 1)

\* ------------------------------------------------------------- instructions
Instruction(mode, old, new, cfd, action, result, redirect, noredirect) ==
    [mode |-> mode, old_cat |-> old, new_cats |-> new, cfd_page |-> cfd,
     action |-> action, result |-> result, redirect |-> redirect,
     noredirect |-> noredirect]

\* RetainFields with the word keep looked for first.
RetainFieldsKeepFirst(suffix, cfd, text, old_cat) ==
    IF "keep" \in suffix
    THEN [result |-> "keep", action |-> "delete"]
    ELSE IF "no consensus" \in suffix
    THEN [result |-> "no consensus", action |-> "delete"]
    ELSE IF "not" \in suffix
    THEN [result |-> "not deleted", action |-> "delete"]
    ELSE [result |-> get_result(cfd, text),
          action |-> get_action(cfd, text, old_cat)]

\* The retain branch of _parse_section: result and action from the suffix,
\* else from the discussion.
RetainFields(suffix, cfd, text, old_cat) ==
    IF "no consensus" \in suffix
    THEN [result |-> "no consensus", action |-> "delete"]
    ELSE IF "not" \in suffix
    THEN [result |-> "not deleted", action |-> "delete"]
    ELSE IF "keep" \in suffix
    THEN [result |-> "keep", action |-> "delete"]
    ELSE [result |-> get_result(cfd, text),
          action |-> get_action(cfd, text, old_cat)]

\* parse_section_line with NO BOT looked for in cfd_prefix alone, the prefix
\* of the line that carried the link to the discussion.
parse_section_line_cfd_prefix(st, mode, line, cfdtext) ==
    IF st.raised THEN st
    ELSE
    LET line_results == _parse_line(line)
    IN IF line_results.raised THEN [st EXCEPT !.raised = TRUE]
       ELSE
       LET has == line_results.cfd_page # NoCfd
           cfd_prefix == IF has THEN line_results.prefix ELSE st.cfd_prefix
           cfd_suffix == IF has THEN line_results.suffix ELSE st.cfd_suffix
           cfd_page == IF has THEN line_results.cfd_page ELSE st.cfd_page
           st1 == [st EXCEPT !.cfd_page = cfd_page, !.cfd_prefix = cfd_prefix,
                             !.cfd_suffix = cfd_suffix]
           old_cat == line_results.old_cat
           prefix == line_results.prefix \cup cfd_prefix
           suffix == IF line_results.suffix # {} THEN line_results.suffix
                     ELSE cfd_suffix
       IN IF cfd_page = NoCfd \/ old_cat = None THEN st1
          ELSE IF "NO BOT" \in cfd_prefix THEN st1
          ELSE
          LET cfd == find_discussion(cfd_page, cfdtext[cfd_page.page], old_cat)
              rf == IF mode = "retain"
                    THEN RetainFields(suffix, cfd, cfdtext[cfd.page], old_cat)
                    ELSE [result |-> "", action |-> ""]
              instruction ==
                  Instruction(mode, old_cat, line_results.new_cats, cfd,
                              rf.action, rf.result,
                              mode = "merge" /\ "REDIRECT" \in prefix,
                              mode = "move" /\ "REDIRECT" \notin prefix)
          IN [st1 EXCEPT !.out = Append(@, instruction)]

\* One turn of the loop of CFDWPage._parse_section.  st carries the locals
\* cfd_page, cfd_prefix, cfd_suffix, the instructions appended so far and
\* whether an exception has ended the section.
parse_section_line(st, mode, line, cfdtext) ==
    IF st.raised THEN st
    ELSE
    LET line_results == _parse_line(line)
    IN IF line_results.raised THEN [st EXCEPT !.raised = TRUE]
       ELSE
       LET has == line_results.cfd_page # NoCfd
           cfd_prefix == IF has THEN line_results.prefix ELSE st.cfd_prefix
           cfd_suffix == IF has THEN line_results.suffix ELSE st.cfd_suffix
           cfd_page == IF has THEN line_results.cfd_page ELSE st.cfd_page
           st1 == [st EXCEPT !.cfd_page = cfd_page, !.cfd_prefix = cfd_prefix,
                             !.cfd_suffix = cfd_suffix]
           old_cat == line_results.old_cat
           prefix == line_results.prefix \cup cfd_prefix
           suffix == IF line_results.suffix # {} THEN line_results.suffix
                     ELSE cfd_suffix
       IN IF cfd_page = NoCfd \/ old_cat = None THEN st1
          ELSE IF "NO BOT" \in prefix THEN st1
          ELSE
          LET cfd == find_discussion(cfd_page, cfdtext[cfd_page.page], old_cat)
              rf == IF mode = "retain"
                    THEN RetainFields(suffix, cfd, cfdtext[cfd.page], old_cat)
                    ELSE [result |-> "", action |-> ""]
              instruction ==
                  Instruction(mode, old_cat, line_results.new_cats, cfd,
                              rf.action, rf.result,
                              mode = "merge" /\ "REDIRECT" \in prefix,
                              mode = "move" /\ "REDIRECT" \notin prefix)
          IN [st1 EXCEPT !.out = Append(@, instruction)]

RECURSIVE parse_section_lines(_, _, _, _)
parse_section_lines(st, mode, lines, cfdtext) ==
    IF lines = <<>> THEN st
    ELSE parse_section_lines(parse_section_line(st, mode, Head(lines), cfdtext),
                             mode, Tail(lines), cfdtext)

\* CFDWPage._parse_section: the instructions the section appends (those
\* appended before an exception stay).
_parse_section(mode, lines, cfdtext) ==
    parse_section_lines([cfd_page |-> NoCfd, cfd_prefix |-> {},
                         cfd_suffix |-> {}, out |-> <<>>, raised |-> FALSE],
                        mode, lines, cfdtext).out

\* for mode in self.MODES: if mode in section_title
ModeOf(title) ==
    LET hits == {i \in 1..Len(MODES) : MODES[i] \in title}
    IN IF hits = {} THEN "" ELSE MODES[CHOOSE i \in hits : \A j \in hits : i <= j]

\* parse_sections with cfd_page, cfd_prefix and cfd_suffix kept from one
\* section to the next (as if they were attributes of the page, like
\* self.mode, and not locals of _parse_section).
RECURSIVE parse_sections_from(_, _, _)
parse_sections_from(st, sections, cfdtext) ==
    IF sections = <<>> THEN st.out
    ELSE LET section == Head(sections)
             mode == ModeOf(section.title)
             st1 == IF mode = "" THEN st
                    ELSE parse_section_lines([st EXCEPT !.raised = FALSE],
                                             mode, section.lines, cfdtext)
         IN parse_sections_from(st1, Tail(sections), cfdtext)

parse_sections_carry(sections, cfdtext) ==
    parse_sections_from([cfd_page |-> NoCfd, cfd_prefix |-> {},
                         cfd_suffix |-> {}, out |-> <<>>, raised |-> FALSE],
                        sections, cfdtext)

\* parse_sections without the try around _parse_section: the exception of
\* a line ends the loop over the sections.
RECURSIVE parse_sections_uncaught_from(_, _, _)
parse_sections_uncaught_from(st, sections, cfdtext) ==
    IF sections = <<>> \/ st.raised THEN st.out
    ELSE LET section == Head(sections)
             mode == ModeOf(section.title)
             st1 == IF mode = "" THEN st
                    ELSE parse_section_lines(
                            [st EXCEPT !.cfd_page = NoCfd, !.cfd_prefix = {},
                                       !.cfd_suffix = {}],
                            mode, section.lines, cfdtext)
         IN parse_sections_uncaught_from(st1, Tail(sections), cfdtext)

parse_sections_uncaught(sections, cfdtext) ==
    parse_sections_uncaught_from(
        [cfd_page |-> NoCfd, cfd_prefix |-> {}, cfd_suffix |-> {},
         out |-> <<>>, raised |-> FALSE], sections, cfdtext)

\* The loop over the sections in CFDWPage.parse.
RECURSIVE parse_sections(_, _)
parse_sections(sections, cfdtext) ==
    IF sections = <<>> THEN <<>>
    ELSE LET section == Head(sections)
             mode == ModeOf(section.title)
         IN (IF mode = "" THEN <<>>
             ELSE _parse_section(mode, section.lines, cfdtext))
            \o parse_sections(Tail(sections), cfdtext)

\* ------------------------------------------------------------- the wiki
\* State of a category page: kind is "absent", "plain", "catredirect" (a
\* {{Category redirect}} page) or "redirectpage" (a #REDIRECT page); target
\* is the category a redirect points to (None otherwise).
CatPage(kind, target) == [kind |-> kind, target |-> target]
Absent == CatPage("absent", None)
Plain == CatPage("plain", None)

exists(st, c) == st[c].kind # "absent"
isCategoryRedirect(st, c) == st[c].kind = "catredirect"
isRedirectPage(st, c) == st[c].kind = "redirectpage"

\* The pages whose text categorises them in c.
LinkedIn(texts, c) ==
    {p \in Pages : \E i \in 1..Len(texts[p]) :
                      ~texts[p][i].colon /\ texts[p][i].cat = c}

RECURSIVE SetToSeq(_)
SetToSeq(S) ==
    IF S = {} THEN <<>>
    ELSE LET x == CHOOSE y \in S : \A z \in S : y <= z
         IN <<x>> \o SetToSeq(S \ {x})

\* Page 2 is the documentation subpage of page 1.
DocSubpage(p) == IF p = 1 /\ NumPages >= 2 THEN 2 ELSE None

\* doc_page_add_generator(old_cat.members())
RECURSIVE doc_page_add_generator(_)
doc_page_add_generator(generator) ==
    IF generator = <<>> THEN <<>>
    ELSE LET page == Head(generator)
         IN <<page>>
            \o (IF DocSubpage(page) # None THEN <<DocSubpage(page)>> ELSE <<>>)
            \o doc_page_add_generator(Tail(generator))

\* ------------------------------------------------------------- the validator
\* CollectSkips with seen.add(old_cat) left out: only targets are remembered.
RECURSIVE CollectSkipsNoOld(_, _)
CollectSkipsNoOld(acc, instrs) ==
    IF instrs = <<>> THEN acc
    ELSE LET instruction == Head(instrs)
             old_cat == instruction.old_cat
             skip1 == IF old_cat \in acc.seen THEN acc.skip \cup {old_cat}
                      ELSE acc.skip
         IN CollectSkipsNoOld([seen |-> acc.seen \cup Range(instruction.new_cats),
                               skip |-> skip1], Tail(instrs))

\* CollectSkips with the test "in seen" made for the targets as well as the
\* old category.
RECURSIVE CollectSkipsAny(_, _)
CollectSkipsAny(acc, instrs) ==
    IF instrs = <<>> THEN acc
    ELSE LET instruction == Head(instrs)
             cats == {instruction.old_cat} \cup Range(instruction.new_cats)
         IN CollectSkipsAny([seen |-> acc.seen \cup cats,
                             skip |-> acc.skip \cup (cats \cap acc.seen)],
                            Tail(instrs))

\* The first loop of CFDWPage._check_run.
RECURSIVE CollectSkips(_, _)
CollectSkips(acc, instrs) ==
    IF instrs = <<>> THEN acc
    ELSE LET instruction == Head(instrs)
             old_cat == instruction.old_cat
             skip1 == IF old_cat \in acc.seen THEN acc.skip \cup {old_cat}
                      ELSE acc.skip
             seen1 == acc.seen \cup {old_cat} \cup Range(instruction.new_cats)
         IN CollectSkips([seen |-> seen1, skip |-> skip1], Tail(instrs))

\* cats = {old_cat}; cats.update(new_cats)
CatsOf(instruction) == {instruction.old_cat} \cup Range(instruction.new_cats)

\* check_instruction, reading the wiki state st: one operator per test.
\* old_is_target with the test left out.
never_target(instruction) == FALSE

\* bot_options['old_cat'] in bot_options['new_cats']
old_is_target(instruction) ==
    instruction.old_cat \in Range(instruction.new_cats)

is_redirect(st, c) == isCategoryRedirect(st, c) \/ isRedirectPage(st, c)

check_empty(instruction) == instruction.new_cats = <<>>

\* check_merge without the redirect test on the targets.
check_merge_exists_only(instruction, st) ==
    LET new_cats == instruction.new_cats
    IN /\ new_cats # <<>>
       /\ \A i \in 1..Len(new_cats) : exists(st, new_cats[i])

check_merge(instruction, st) ==
    LET new_cats == instruction.new_cats
    IN /\ new_cats # <<>>
       /\ \A i \in 1..Len(new_cats) :
             /\ exists(st, new_cats[i])
             /\ ~is_redirect(st, new_cats[i])

\* check_move testing for no target instead of for other than one target.
check_move_some_target(instruction, st) ==
    LET new_cats == instruction.new_cats
    IN /\ Len(new_cats) >= 1
       /\ ~(is_redirect(st, instruction.old_cat) /\ ~exists(st, new_cats[1]))
       /\ ~is_redirect(st, new_cats[1])

\* check_move without the redirect test on the target.
check_move_any_target(instruction, st) ==
    LET new_cats == instruction.new_cats
    IN /\ Len(new_cats) = 1
       /\ ~(is_redirect(st, instruction.old_cat) /\ ~exists(st, new_cats[1]))

check_move(instruction, st) ==
    LET new_cats == instruction.new_cats
    IN /\ Len(new_cats) = 1
       /\ ~(is_redirect(st, instruction.old_cat) /\ ~exists(st, new_cats[1]))
       /\ ~is_redirect(st, new_cats[1])

\* check_retain testing the action alone.
check_retain_action_only(instruction, st) ==
    /\ exists(st, instruction.old_cat)
    /\ instruction.new_cats = <<>>
    /\ instruction.action # ""

check_retain(instruction, st) ==
    /\ exists(st, instruction.old_cat)
    /\ instruction.new_cats = <<>>
    /\ ~(instruction.action = "" \/ instruction.result = "")

check_instruction(instruction, st) ==
    IF old_is_target(instruction) THEN FALSE
    ELSE IF instruction.mode = "empty" THEN check_empty(instruction)
    ELSE IF instruction.mode = "merge" THEN check_merge(instruction, st)
    ELSE IF instruction.mode = "move" THEN check_move(instruction, st)
    ELSE IF instruction.mode = "retain" THEN check_retain(instruction, st)
    ELSE FALSE

\* ------------------------------------------------------------- state
VARIABLES
    wpage,         \* the working page (sections of lines)
    cfdtext,       \* the text of each discussion page
    protection,    \* the edit protection level of the working page
    catState,      \* the category pages
    pageText,      \* the text of each member page
    catIndex,      \* the membership index: what members() and
                   \* isEmptyCategory() report for each category
    talk,          \* the talk page of each category
    killSwitch,    \* TRUE when the kill-switch page has content
    pc,            \* where the run is
    instructions,  \* self.instructions
    accepted,      \* the local list instructions of _check_run
    seen,          \* the local set seen of _check_run
    skip,          \* the local set skip of _check_run
    idx,           \* position of the second loop of _check_run
    todo,          \* what is left of the generator CfdBot.run() iterates
    calls,         \* the positions do_instruction was called for, in order
    ops            \* every write made to the wiki, in order

vars == <<wpage, cfdtext, protection, catState, pageText, catIndex, talk, killSwitch,
          pc, instructions, accepted, seen, skip, idx, todo, calls, ops>>

wiki == <<catState, pageText, catIndex, talk>>
input == <<wpage, cfdtext, protection>>

Op(op, cat, page, instr) == [op |-> op, cat |-> cat, page |-> page, instr |-> instr]

TalkPage(e, notes) == [exists |-> e, notes |-> notes]

\* ------------------------------------------------------------- parse
\* page.protection().get('edit', ('', ''))[0]: the level of the edit
\* protection, '' when the page has none.  A protection is a set of
\* <<type, level>> pairs, one per protected type.
edit_protection(pr) ==
    IF \E e \in pr : e[1] = "edit"
    THEN (CHOOSE e \in pr : e[1] = "edit")[2]
    ELSE ""

\* Parse whatever the protection of the page (the test in main lost).
ParseUnprotected ==
    /\ pc = "start"
    /\ instructions' = parse_sections(wpage, cfdtext)
    /\ pc' = "collect"
    /\ UNCHANGED <<input, wiki, killSwitch, accepted, seen, skip, idx, todo, calls, ops>>

\* main for a page with full edit protection: CFDWPage.parse up to the
\* call of _check_run.
Parse ==
    /\ pc = "start"
    /\ edit_protection(protection) = "sysop"
    /\ instructions' = parse_sections(wpage, cfdtext)
    /\ pc' = "collect"
    /\ UNCHANGED <<input, wiki, killSwitch, accepted, seen, skip, idx, todo, calls, ops>>

\* main for any other page: parse is not called.
Unprotected ==
    /\ pc = "start"
    /\ edit_protection(protection) # "sysop"
    /\ pc' = "unprotected"
    /\ UNCHANGED <<input, wiki, killSwitch, instructions, accepted, seen,
                   skip, idx, todo, calls, ops>>

\* The first loop of _check_run: collect categories and skips.
Collect ==
    /\ pc = "collect"
    /\ LET c == CollectSkips([seen |-> {}, skip |-> {}], instructions)
       IN seen' = c.seen /\ skip' = c.skip
    /\ accepted' = <<>>
    /\ idx' = 1
    /\ pc' = "filter"
    /\ UNCHANGED <<input, wiki, killSwitch, instructions, todo, calls, ops>>

Current == instructions[idx]
AtInstruction == pc = "filter" /\ idx <= Len(instructions)

\* cats & skip: the instruction is skipped with a warning.
SkipInstruction ==
    /\ AtInstruction
    /\ CatsOf(Current) \cap skip # {}
    /\ idx' = idx + 1
    /\ UNCHANGED <<input, wiki, killSwitch, pc, instructions, accepted, seen,
                   skip, todo, calls, ops>>

\* RejectInstruction leaving the loop (a return where the loop goes on).
RejectInstructionStops ==
    /\ AtInstruction
    /\ CatsOf(Current) \cap skip = {}
    /\ ~check_instruction(Current, catState)
    /\ instructions' = accepted
    /\ pc' = "done"
    /\ UNCHANGED <<input, wiki, killSwitch, accepted, seen, skip, idx, todo,
                   calls, ops>>

\* check_instruction returned False.
RejectInstruction ==
    /\ AtInstruction
    /\ CatsOf(Current) \cap skip = {}
    /\ ~check_instruction(Current, catState)
    /\ idx' = idx + 1
    /\ UNCHANGED <<input, wiki, killSwitch, pc, instructions, accepted, seen,
                   skip, todo, calls, ops>>

\* Accept with "if check_instruction" in place of "elif": the conflict
\* test no longer keeps the instruction from running.
AcceptDespiteConflict ==
    /\ AtInstruction
    /\ check_instruction(Current, catState)
    /\ accepted' = Append(accepted, Current)
    /\ calls' = Append(calls, idx)

\* Accept with check_instruction asked about the wiki as it was before this
\* run deleted or redirected any category (all checks made ahead of the
\* first execution).
AcceptCheckedAhead ==
    /\ AtInstruction
    /\ CatsOf(Current) \cap skip = {}
    /\ check_instruction(Current,
          [c \in Cats |->
              IF \E k \in 1..Len(ops) :
                    ops[k].cat = c /\ ops[k].op \in {"delete", "redirect"}
              THEN Plain ELSE catState[c]])
    /\ accepted' = Append(accepted, Current)
    /\ calls' = Append(calls, idx)

Accept ==
    /\ AtInstruction
    /\ CatsOf(Current) \cap skip = {}
    /\ check_instruction(Current, catState)
    /\ accepted' = Append(accepted, Current)
    /\ calls' = Append(calls, idx)

\* bot_options['generator'], read when CfdBot.run() starts
Generator(old_cat) == doc_page_add_generator(SetToSeq(catIndex[old_cat]))

\* do_instruction, modes empty and merge, up to CfdBot(**bot_options).run()
DoEmptyOrMerge ==
    /\ Accept
    /\ Current.mode \in {"empty", "merge"}
    /\ todo' = Generator(Current.old_cat)
    /\ pc' = "bot"
    /\ UNCHANGED <<input, wiki, killSwitch, instructions, seen, skip, idx, ops>>

\* DoMove without the test that the target is free: the category is moved
\* over an existing target.
DoMoveOverTarget ==
    /\ Accept
    /\ Current.mode = "move"
    /\ LET old_cat == Current.old_cat
           new_cat == Current.new_cats[1]
       IN IF /\ exists(catState, old_cat)
             /\ ~isCategoryRedirect(catState, old_cat)
             /\ ~isRedirectPage(catState, old_cat)
          THEN /\ \E kind \in {"catredirect", "redirectpage"} :
                    catState' = [catState EXCEPT
                        ![new_cat] = Plain,
                        ![old_cat] = IF Current.noredirect THEN Absent
                                     ELSE CatPage(kind, new_cat)]
               /\ talk' = IF talk[old_cat].exists /\ ~talk[new_cat].exists
                          THEN [talk EXCEPT ![new_cat] = talk[old_cat],
                                            ![old_cat] = TalkPage(FALSE, <<>>)]
                          ELSE talk
               /\ ops' = ops \o <<Op("move", old_cat, None, idx),
                                  Op("strip", new_cat, None, idx)>>
          ELSE UNCHANGED <<catState, talk, ops>>
    /\ todo' = Generator(Current.old_cat)
    /\ pc' = "bot"
    /\ UNCHANGED <<input, pageText, catIndex, killSwitch, instructions, seen,
                   skip, idx>>

\* do_instruction, mode move, up to CfdBot(**bot_options).run(): the
\* category page is moved when it is a plain page and the target is free,
\* and the CfD template is removed from the target.  The page left behind
\* (unless noredirect) is a redirect of either kind.
DoMove ==
    /\ Accept
    /\ Current.mode = "move"
    /\ LET old_cat == Current.old_cat
           new_cat == Current.new_cats[1]
       IN IF /\ exists(catState, old_cat)
             /\ ~isCategoryRedirect(catState, old_cat)
             /\ ~isRedirectPage(catState, old_cat)
             /\ ~exists(catState, new_cat)
          THEN /\ \E kind \in {"catredirect", "redirectpage"} :
                    catState' = [catState EXCEPT
                        ![new_cat] = Plain,
                        ![old_cat] = IF Current.noredirect THEN Absent
                                     ELSE CatPage(kind, new_cat)]
               /\ talk' = IF talk[old_cat].exists /\ ~talk[new_cat].exists
                          THEN [talk EXCEPT ![new_cat] = talk[old_cat],
                                            ![old_cat] = TalkPage(FALSE, <<>>)]
                          ELSE talk
               /\ ops' = ops \o <<Op("move", old_cat, None, idx),
                                  Op("strip", new_cat, None, idx)>>
          ELSE UNCHANGED <<catState, talk, ops>>
    /\ todo' = Generator(Current.old_cat)
    /\ pc' = "bot"
    /\ UNCHANGED <<input, pageText, catIndex, killSwitch, instructions, seen,
                   skip, idx>>

\* NoteNeeded with the date of the note not compared: any Old CfD note
\* with a date counts, whatever the date.
NoteNeededBlind(t, cfd_page) == ~(t.exists /\ t.notes # <<>>)

\* add_old_cfd on the talk page t for the discussion cfd_page: nothing is
\* saved when an Old CfD note of the same date is there.
DateOf(cfd_page) == cfd_page.page
NoteNeeded(t, cfd_page) ==
    ~(t.exists /\ DateOf(cfd_page) \in Range(t.notes))
add_old_cfd(t, cfd_page) ==
    IF NoteNeeded(t, cfd_page)
    THEN TalkPage(TRUE, <<DateOf(cfd_page)>> \o t.notes)
    ELSE t

\* DoRetain followed by CfdBot(**bot_options).run(), as in the other modes.
DoRetainRunsBot ==
    /\ Accept
    /\ Current.mode = "retain"
    /\ LET old_cat == Current.old_cat
       IN /\ talk' = [talk EXCEPT ![old_cat] = add_old_cfd(@, Current.cfd_page)]
          /\ ops' = ops \o <<Op("strip", old_cat, None, idx)>>
                    \o (IF NoteNeeded(talk[old_cat], Current.cfd_page)
                        THEN <<Op("note", old_cat, None, idx)>>
                        ELSE <<>>)
    /\ todo' = Generator(Current.old_cat)
    /\ pc' = "bot"
    /\ UNCHANGED <<input, catState, pageText, catIndex, killSwitch,
                   instructions, seen, skip, idx>>

\* do_instruction, mode retain: remove_cfd_tpl, then add_old_cfd.
DoRetain ==
    /\ Accept
    /\ Current.mode = "retain"
    /\ LET old_cat == Current.old_cat
       IN /\ talk' = [talk EXCEPT ![old_cat] = add_old_cfd(@, Current.cfd_page)]
          /\ ops' = ops \o <<Op("strip", old_cat, None, idx)>>
                    \o (IF NoteNeeded(talk[old_cat], Current.cfd_page)
                        THEN <<Op("note", old_cat, None, idx)>>
                        ELSE <<>>)
    /\ idx' = idx + 1
    /\ UNCHANGED <<input, catState, pageText, catIndex, killSwitch, pc,
                   instructions, seen, skip, todo>>

\* ------------------------------------------------------------- the bot run
\* The index entry of page p brought in line with the text t of the page.
Reindexed(index, p, t) ==
    [c \in Cats |->
        IF \E i \in 1..Len(t) : ~t[i].colon /\ t[i].cat = c
        THEN index[c] \cup {p} ELSE index[c] \ {p}]

\* CfdBot.treat_page on the next page of the generator.  The save is
\* synchronous; the membership index follows at once or later.
TreatPage ==
    /\ pc = "bot"
    /\ todo # <<>>
    /\ LET page == Head(todo)
           r == treat_page(pageText[page], Current.old_cat, Current.new_cats)
       IN IF r.found
          THEN /\ pageText' = [pageText EXCEPT ![page] = r.text]
               /\ \E fresh \in BOOLEAN :
                    catIndex' = IF fresh THEN Reindexed(catIndex, page, r.text)
                                ELSE catIndex
               /\ ops' = Append(ops, Op("edit", Current.old_cat, page, idx))
          ELSE UNCHANGED <<pageText, catIndex, ops>>
    /\ todo' = Tail(todo)
    /\ UNCHANGED <<input, catState, talk, killSwitch, pc, instructions,
                   accepted, seen, skip, idx, calls>>

\* delete_page: the page, the #REDIRECT pages to it and its talk page.
RedirectsTo(st, c) ==
    {r \in Cats : st[r].kind = "redirectpage" /\ st[r].target = c}

DeletedCats(st, c) ==
    [x \in Cats |-> IF x = c \/ x \in RedirectsTo(st, c) THEN Absent ELSE st[x]]

RECURSIVE RedirectOps(_, _)
RedirectOps(rs, i) ==
    IF rs = <<>> THEN <<>>
    ELSE <<Op("delete redirect", Head(rs), None, i)>> \o RedirectOps(Tail(rs), i)

DeleteOps(st, tk, c, i) ==
    <<Op("delete", c, None, i)>>
    \o RedirectOps(SetToSeq(RedirectsTo(st, c)), i)
    \o (IF tk[c].exists THEN <<Op("delete talk", c, None, i)>> ELSE <<>>)

\* isEmptyCategory never consulted.
AlwaysEmpty(index, c) == TRUE

isEmptyCategory(index, c) == index[c] = {}

\* merge_redirect with the flag taken whatever the number of targets.
merge_redirect_flag_only(instruction) == instruction.redirect

\* The local redirect of do_instruction in merge mode: the instruction's
\* flag when there is one target, False otherwise.
merge_redirect(instruction) ==
    Len(instruction.new_cats) = 1 /\ instruction.redirect

\* Settle with delete_page called after redirect_cat as well (the else of
\* "if redirect" lost).
SettleRedirectThenDelete ==
    /\ pc = "bot"
    /\ todo = <<>>
    /\ LET old_cat == Current.old_cat
           new_cats == Current.new_cats
           delete == /\ catState' = DeletedCats(catState, old_cat)
                     /\ talk' = [talk EXCEPT ![old_cat] = TalkPage(FALSE, <<>>)]
                     /\ ops' = ops \o DeleteOps(catState, talk, old_cat, idx)
       IN IF Current.mode = "empty"
          THEN IF exists(catState, old_cat) /\ isEmptyCategory(catIndex, old_cat)
               THEN delete
               ELSE UNCHANGED <<catState, talk, ops>>
          ELSE IF Current.mode = "merge"
          THEN IF /\ exists(catState, old_cat)
                  /\ isEmptyCategory(catIndex, old_cat)
                  /\ ~isCategoryRedirect(catState, old_cat)
               THEN IF merge_redirect(Current)
                    THEN /\ catState' = DeletedCats(catState, old_cat)
                         /\ talk' = [talk EXCEPT ![old_cat] = TalkPage(FALSE, <<>>)]
                         /\ ops' = Append(ops, Op("redirect", old_cat, None, idx))
                                   \o DeleteOps(catState, talk, old_cat, idx)
                    ELSE delete
               ELSE UNCHANGED <<catState, talk, ops>>
          ELSE UNCHANGED <<catState, talk, ops>>
    /\ idx' = idx + 1
    /\ pc' = "filter"
    /\ UNCHANGED <<input, pageText, catIndex, killSwitch, instructions,
                   accepted, seen, skip, todo, calls>>

\* do_instruction after CfdBot.run() has returned: the settle wait is over
\* and the category is looked at again.
Settle ==
    /\ pc = "bot"
    /\ todo = <<>>
    /\ LET old_cat == Current.old_cat
           new_cats == Current.new_cats
           delete == /\ catState' = DeletedCats(catState, old_cat)
                     /\ talk' = [talk EXCEPT ![old_cat] = TalkPage(FALSE, <<>>)]
                     /\ ops' = ops \o DeleteOps(catState, talk, old_cat, idx)
       IN IF Current.mode = "empty"
          THEN IF exists(catState, old_cat) /\ isEmptyCategory(catIndex, old_cat)
               THEN delete
               ELSE UNCHANGED <<catState, talk, ops>>
          ELSE IF Current.mode = "merge"
          THEN IF /\ exists(catState, old_cat)
                  /\ isEmptyCategory(catIndex, old_cat)
                  /\ ~isCategoryRedirect(catState, old_cat)
               THEN IF merge_redirect(Current)
                    \* redirect_cat
                    THEN /\ catState' = [catState EXCEPT ![old_cat] =
                                            CatPage("catredirect", new_cats[1])]
                         /\ ops' = Append(ops, Op("redirect", old_cat, None, idx))
                         /\ UNCHANGED talk
                    ELSE delete
               ELSE UNCHANGED <<catState, talk, ops>>
          ELSE UNCHANGED <<catState, talk, ops>>
    /\ idx' = idx + 1
    /\ pc' = "filter"
    /\ UNCHANGED <<input, pageText, catIndex, killSwitch, instructions,
                   accepted, seen, skip, todo, calls>>

\* self.instructions = instructions
Finish ==
    /\ pc = "filter"
    /\ idx > Len(instructions)
    /\ instructions' = accepted
    /\ pc' = "done"
    /\ UNCHANGED <<input, wiki, killSwitch, accepted, seen, skip, idx, todo, calls, ops>>

\* ------------------------------------------------------------- environment
\* The membership index catches up with the page texts.
Reindex ==
    /\ catIndex # [c \in Cats |-> LinkedIn(pageText, c)]
    /\ catIndex' = [c \in Cats |-> LinkedIn(pageText, c)]
    /\ UNCHANGED <<input, catState, pageText, talk, killSwitch, pc,
                   instructions, accepted, seen, skip, idx, todo, calls, ops>>

\* Somebody puts content on the kill-switch page.
KillSwitchSet ==
    /\ ~killSwitch
    /\ pc \notin {"done", "unprotected"}
    /\ killSwitch' = TRUE
    /\ UNCHANGED <<input, wiki, pc, instructions, accepted, seen, skip, idx,
                   todo, calls, ops>>

Next ==
    \/ Parse
    \/ Unprotected
    \/ Collect
    \/ SkipInstruction
    \/ RejectInstruction
    \/ DoEmptyOrMerge
    \/ DoMove
    \/ DoRetain
    \/ TreatPage
    \/ Settle
    \/ Finish
    \/ Reindex
    \/ KillSwitchSet

\* ------------------------------------------------------------- initial states
\* Lists of at most n target categories.
NewSeqs(n) == UNION {[1..k -> Cats] : k \in 0..n}

\* A working-page line as editors write it: prefix text, the old category,
\* the targets, the link to the discussion, suffix text.
RECURSIVE CatNodes(_)
CatNodes(cs) == IF cs = <<>> THEN <<>> ELSE <<CatNode(Head(cs))>> \o CatNodes(Tail(cs))

Line(prefix, old, news, ref, suffix) ==
    <<TextNode(prefix), CatNode(old)>> \o CatNodes(news)
    \o <<CfdNode(ref), TextNode(suffix)>>

Entry(mode, old, news, prefix, suffix) ==
    [mode |-> mode, old |-> old, news |-> news, prefix |-> prefix,
     suffix |-> suffix]

SectionOfEntry(e) ==
    [title |-> {e.mode},
     lines |-> <<Line(e.prefix, e.old, e.news, CfdRef(1, None), e.suffix)>>]

\* Lines that differ in what the run reads: REDIRECT matters to move and
\* merge lines, the suffix to retain lines.
Entries ==
    {Entry(m, o, n, p, s) :
        m \in Range(MODES), o \in Cats, n \in NewSeqs(MaxNew),
        p \in {{}, {"REDIRECT"}, {"NO BOT"}}, s \in {{}, {"keep"}}}

\* A line that leaves the link to the discussion to the line above it.
LineNoCfd(prefix, old, news, suffix) ==
    <<TextNode(prefix), CatNode(old)>> \o CatNodes(news) \o <<TextNode(suffix)>>

\* A section of two lines, the second without a link to the discussion.
SectionOfEntries(e1, e2) ==
    [title |-> {e1.mode},
     lines |-> <<Line(e1.prefix, e1.old, e1.news, CfdRef(1, None), e1.suffix),
                 LineNoCfd(e2.prefix, e2.old, e2.news, e2.suffix)>>]

\* A section of two lines, one of them with a link to a page that is
\* neither a category nor a CFD page, before or after the other.
BadLine == <<TextNode({}), BadNode, TextNode({})>>

SectionWithBadLine(e, first) ==
    LET line == Line(e.prefix, e.old, e.news, CfdRef(1, None), e.suffix)
    IN [title |-> {e.mode},
        lines |-> IF first THEN <<BadLine, line>> ELSE <<line, BadLine>>]

\* Lines an editor may have marked NO BOT.
MarkedEntry(e) ==
    /\ e.prefix \in {{}, {"NO BOT"}}
    /\ e.suffix = IF e.mode = "retain" THEN {"keep"} ELSE {}

PlainEntry(e) ==
    /\ e.prefix = {}
    /\ e.suffix = IF e.mode = "retain" THEN {"keep"} ELSE {}

UsefulEntry(e) ==
    /\ e.prefix \in {{}, {"REDIRECT"}}
    /\ e.prefix # {} => e.mode \in {"move", "merge"}
    /\ e.suffix # {} => e.mode = "retain"

\* The discussion page: one section, headed by category 1's title.
CfdSection(result, propose) ==
    [title |-> 1, parts |-> 3, nom |-> {}, result |-> result,
     propose |-> propose]
DefaultCfd == [d \in CfdPages |-> <<CfdSection("keep", Cats)>>]
CfdTexts ==
    {[d \in CfdPages |-> <<CfdSection(r, p)>>] :
        r \in {"", "keep"}, p \in {{}, Cats}}

CatPageValues ==
    {Absent, Plain}
    \cup {CatPage(k, t) : k \in {"catredirect", "redirectpage"}, t \in Cats}

\* Category pages: at most MaxOdd are not plain existing pages; a redirect
\* points to another category.
CatStates ==
    {st \in [Cats -> CatPageValues] :
        /\ Cardinality({c \in Cats : st[c] # Plain}) <= MaxOdd
        /\ \A c \in Cats : st[c].target # c}

\* Page p links the categories 1..p, the first with a sort key.
InitText(p) ==
    [i \in 1..(IF p <= NumCats THEN p ELSE NumCats) |->
        [cat |-> i, key |-> IF i = 1 THEN p ELSE 0, colon |-> FALSE]]

LinksOf(e) == 1 + Len(e.news)

\* One line with everything varied, or, on a wiki of plain categories, two
\* lines in two sections (the first plain or marked REDIRECT, the second
\* plain), the same with a raising line before or after the first, one
\* line marked NO BOT, or one section of two lines either of which may be
\* marked NO BOT.
InitInput ==
    \/ /\ wpage = <<>>
       /\ cfdtext = DefaultCfd
       /\ catState \in CatStates
    \/ \E e \in Entries :
          /\ UsefulEntry(e)
          /\ wpage = <<SectionOfEntry(e)>>
          /\ cfdtext \in CfdTexts
          /\ cfdtext # DefaultCfd => e.mode = "retain" /\ e.suffix = {}
          /\ catState \in CatStates
    \/ \E e1 \in Entries, e2 \in Entries :
          /\ PlainEntry(e1) \/ (UsefulEntry(e1) /\ e1.prefix = {"REDIRECT"})
          /\ PlainEntry(e2)
          /\ LinksOf(e1) + LinksOf(e2) <= MaxLinks
          /\ wpage = <<SectionOfEntry(e1), SectionOfEntry(e2)>>
          /\ cfdtext = DefaultCfd
          /\ catState = [c \in Cats |-> Plain]
    \/ \E e1 \in Entries, e2 \in Entries, first \in BOOLEAN :
          /\ PlainEntry(e1) /\ PlainEntry(e2)
          /\ LinksOf(e1) + LinksOf(e2) <= MaxLinks
          /\ wpage = <<SectionWithBadLine(e1, first), SectionOfEntry(e2)>>
          /\ cfdtext = DefaultCfd
          /\ catState = [c \in Cats |-> Plain]
    \/ \E e \in Entries :
          /\ MarkedEntry(e) /\ e.prefix # {}
          /\ wpage = <<SectionOfEntry(e)>>
          /\ cfdtext = DefaultCfd
          /\ catState = [c \in Cats |-> Plain]
    \/ \E e1 \in Entries, e2 \in Entries :
          /\ MarkedEntry(e1) /\ MarkedEntry(e2)
          /\ e1.mode = e2.mode
          /\ LinksOf(e1) + LinksOf(e2) <= MaxLinks
          /\ wpage = <<SectionOfEntries(e1, e2)>>
          /\ cfdtext = DefaultCfd
          /\ catState = [c \in Cats |-> Plain]

\* Talk pages: a category that exists has one, without an Old CfD note.
\* The category of a single retain line on a wiki of plain categories may
\* also carry the note of an earlier run, for the date of the discussion
\* page or for another date.
OtherDate == Max(CfdPages) + 1
NoTalkNotes == [c \in Cats |-> TalkPage(exists(catState, c), <<>>)]
InitTalks ==
    IF /\ Len(wpage) = 1
       /\ wpage[1].title = {"retain"}
       /\ catState = [c \in Cats |-> Plain]
       /\ cfdtext = DefaultCfd
    THEN {[NoTalkNotes EXCEPT ![c].notes = n] :
             c \in Cats, n \in {<<>>, <<1>>, <<OtherDate>>, <<OtherDate, 1>>}}
    ELSE {NoTalkNotes}

\* Protections of the working page: none, semi-protected, protected
\* against moves only, fully protected.
Protections ==
    {{}, {<<"edit", "autoconfirmed">>}, {<<"move", "sysop">>},
     {<<"edit", "sysop">>, <<"move", "sysop">>}}

Init ==
    /\ InitInput
    /\ protection \in Protections
    /\ pageText = [p \in Pages |-> InitText(p)]
    /\ catIndex = [c \in Cats |-> LinkedIn(pageText, c)]
    /\ talk \in InitTalks
    /\ killSwitch = FALSE
    /\ pc = "start"
    /\ instructions = <<>>
    /\ accepted = <<>>
    /\ seen = {}
    /\ skip = {}
    /\ idx = 1
    /\ todo = <<>>
    /\ calls = <<>>
    /\ ops = <<>>

Spec == Init /\ [][Next]_vars

\* ------------------------------------------------------------- one member page
\* CfdBot.treat_page applied twice to one page with any text: a single
\* empty or merge instruction has been accepted and the bot is about to
\* work on page 1, which comes up a second time after it has been saved.
Keys == {0, 1}
Links == [cat : Cats, key : Keys, colon : BOOLEAN]
Texts == UNION {[1..n -> Links] : n \in 0..MaxText}

PageEntries ==
    {e \in {Entry(IF n = <<>> THEN "empty" ELSE "merge", o, n, {}, {}) :
                o \in Cats, n \in NewSeqs(MaxNew)} :
        e.old \notin Range(e.news)}

InitPage ==
    /\ \E e \in PageEntries : wpage = <<SectionOfEntry(e)>>
    /\ cfdtext = DefaultCfd
    /\ protection = {<<"edit", "sysop">>, <<"move", "sysop">>}
    /\ catState = [c \in Cats |-> Plain]
    /\ \E t \in Texts :
          pageText = [p \in Pages |-> IF p = 1 THEN t ELSE InitText(p)]
    /\ catIndex = [c \in Cats |-> LinkedIn(pageText, c)]
    /\ talk = NoTalkNotes
    /\ killSwitch = FALSE
    /\ pc = "bot"
    /\ instructions = parse_sections(wpage, cfdtext)
    /\ accepted = instructions
    /\ seen = CollectSkips([seen |-> {}, skip |-> {}], instructions).seen
    /\ skip = {}
    /\ idx = 1
    /\ todo = <<1, 1>>
    /\ calls = <<1>>
    /\ ops = <<>>

NextPage == TreatPage

SpecPage == InitPage /\ [][NextPage]_vars

\* ------------------------------------------------------------- parsing alone
\* CFDWPage.parse up to the call of _check_run, on working pages of up to
\* two sections and MaxLinks lines.  A line names its category and may
\* carry a link to the discussion page (to the whole page or to a section
\* of it) and a link to a page that is neither a category nor a CFD page.
PLines ==
    [old : Cats, ref : {NoCfd, CfdRef(1, None), CfdRef(1, OtherTitle)},
     bad : BOOLEAN]

PLine(l) ==
    <<TextNode({}), CatNode(l.old)>>
    \o (IF l.ref = NoCfd THEN <<>> ELSE <<CfdNode(l.ref)>>)
    \o (IF l.bad THEN <<BadNode>> ELSE <<>>)
    \o <<TextNode({})>>

PSection(ls) == [title |-> {"empty"}, lines |-> [k \in 1..Len(ls) |-> PLine(ls[k])]]

BadIn(ls) == Cardinality({k \in 1..Len(ls) : ls[k].bad})

\* The working page is one section, or two, with MaxLinks lines at most
\* and at most one line with the bad link in a section.
ParsePage ==
    \/ \E n \in 1..MaxLinks : \E a \in [1..n -> PLines] :
          BadIn(a) <= 1 /\ wpage = <<PSection(a)>>
    \/ \E i \in 1..(MaxLinks - 1) : \E j \in 1..(MaxLinks - i) :
          \E a \in [1..i -> PLines], b \in [1..j -> PLines] :
             /\ BadIn(a) <= 1 /\ BadIn(b) <= 1
             /\ wpage = <<PSection(a), PSection(b)>>

\* The categories a working page may name: one more than the wiki holds,
\* so that two lines with different old categories can have one target.
LineCats == Cats \cup {NumCats + 1}

\* Up to MaxLinks lines of one section, each with an old category and at
\* most one target.
TargetLines ==
    UNION {[1..n -> [old : LineCats,
                     news : {<<>>} \cup {<<c>> : c \in LineCats}]] :
             n \in 1..MaxLinks}

\* What the suffix of a retain line is searched for, and other text.
RetainWords == {"no consensus", "not", "keep", "other"}

\* Discussion pages of up to MaxSections level-4 sections: a heading, the
\* number of pieces the section splits into at "(UTC)", and the categories
\* linked in the second piece.
DiscussionSections ==
    [title : Titles, parts : {2, 3}, nom : {{}} \cup {{c} : c \in Cats},
     result : {"keep"}, propose : {Cats}]

DiscussionTexts ==
    [CfdPages -> UNION {[1..n -> DiscussionSections] : n \in 0..MaxSections}]

InitParse ==
    /\ \/ /\ ParsePage
          /\ cfdtext = DefaultCfd
       \/ /\ wpage \in {<<[title |-> {"retain"},
                            lines |-> <<Line({}, o, <<>>, CfdRef(1, None), sfx)>>]>> :
                          o \in Cats, sfx \in SUBSET RetainWords}
          /\ cfdtext \in CfdTexts
       \/ /\ wpage \in {<<[title |-> {"merge"},
                            lines |-> [k \in 1..Len(ls) |->
                                         Line({}, ls[k].old, ls[k].news,
                                              CfdRef(1, None), {})]]>> :
                          ls \in TargetLines}
          /\ cfdtext = DefaultCfd
       \/ /\ wpage \in {<<PSection(<<l>>)>> :
                          l \in {x \in PLines : x.ref = CfdRef(1, None) /\ ~x.bad}}
          /\ cfdtext \in DiscussionTexts
    /\ protection = {<<"edit", "sysop">>, <<"move", "sysop">>}
    /\ catState = [c \in Cats |-> Plain]
    /\ pageText = [p \in Pages |-> InitText(p)]
    /\ catIndex = [c \in Cats |-> LinkedIn(pageText, c)]
    /\ talk = NoTalkNotes
    /\ killSwitch = FALSE
    /\ pc = "start"
    /\ instructions = <<>>
    /\ accepted = <<>>
    /\ seen = {}
    /\ skip = {}
    /\ idx = 1
    /\ todo = <<>>
    /\ calls = <<>>
    /\ ops = <<>>

NextParse == Parse \/ Collect

SpecParse == InitParse /\ [][NextParse]_vars

\* ------------------------------------------------------------- properties
\* The instructions parsed from the working page, by position.  The inputs
\* never change, so this is the list the run works on in every state.
Parsed == parse_sections(wpage, cfdtext)
Positions == 1..Len(Parsed)

Called(i) == i \in Range(calls)
Remains(i) == pc = "done" /\ Parsed[i] \in Range(instructions)
Share(i, j) == CatsOf(Parsed[i]) \cap CatsOf(Parsed[j]) # {}

\* do_instruction is being called for the instruction at idx in this step.
CallStep == calls' = Append(calls, idx)

\* C1: whenever two instructions at different positions share a
\* category, as source or target of either, neither is executed and neither
\* is in the final list.
C1_AnySharedCategory ==
    \A i \in Positions, j \in Positions :
        (i # j /\ Share(i, j))
            => ~Called(i) /\ ~Called(j) /\ ~Remains(i) /\ ~Remains(j)

\* The categories that are the old category of an instruction and occur in
\* an instruction earlier on the page, whatever its section.
SkipOfAll(P) ==
    {c \in Cats : \E j \in 1..Len(P), k \in 1..Len(P) :
                     k < j /\ P[j].old_cat = c /\ c \in CatsOf(P[k])}

Started == pc \notin {"start", "collect", "unprotected"}
WritesOf(i) == {k \in 1..Len(ops) : ops[k].instr = i}

C2_State(at, sk, cl, op) ==
    /\ at \in {"start", "collect", "unprotected"} => cl = <<>> /\ op = <<>>
    /\ at \notin {"start", "collect", "unprotected"} =>
          LET P == Parsed
          IN /\ sk = SkipOfAll(P)
             /\ \A i \in 1..Len(P) :
                   CatsOf(P[i]) \cap sk # {}
                       => /\ i \notin Range(cl)
                          /\ \A k \in 1..Len(op) : op[k].instr # i

\* C2: the skip-set is computed from the instructions of all sections
\* before do_instruction is first called and does not change afterwards;
\* an instruction with a category in it makes no write to the wiki, also
\* when the instruction it conflicts with comes later.  (Stated of the
\* state each step leads to; in the initial states nothing has run.)
C2_SkipSetFixed ==
    [][/\ C2_State(pc', skip', calls', ops')
       /\ Started => skip' = skip]_vars

\* The first instruction has been passed over for a conflict with the
\* second, which has not been looked at yet, though it passes
\* check_instruction.
C2_Witness ==
    /\ pc = "filter" /\ idx = 2 /\ Len(Parsed) = 2
    /\ Parsed[2].old_cat \in CatsOf(Parsed[1])
    /\ check_instruction(Parsed[1], catState)
    /\ calls = <<>> /\ ops = <<>>

C3_Step ==
    /\ (AtInstruction /\ (idx' # idx \/ pc' # pc))
          => /\ CallStep <=> /\ CatsOf(Current) \cap skip = {}
                             /\ check_instruction(Current, catState)
             /\ ~CallStep => calls' = calls
    /\ ~AtInstruction => calls' = calls
    /\ CallStep => ~Called(idx)
    /\ idx' \in {idx, idx + 1}
    /\ pc' = "done"
          => /\ idx' = Len(Parsed) + 1
             /\ instructions' = [k \in 1..Len(calls') |-> Parsed[calls'[k]]]

\* C3: do_instruction is called for an instruction exactly when it is
\* reached with no category in the skip-set and check_instruction true,
\* at most once per instruction, every instruction is reached, and
\* self.instructions ends as the sequence of the executed instructions.
C3_ExecutedExactlyOnce == [][C3_Step]_vars

\* A finished run of two instructions: the first failed check_instruction,
\* the second was executed.
C3_Witness ==
    /\ pc = "done" /\ Len(Parsed) = 2
    /\ CatsOf(Parsed[1]) \cap skip = {}
    /\ calls = <<2>>
    /\ instructions = <<Parsed[2]>>

\* C4: once the kill-switch page has content, no member page is
\* edited, no terminal action is performed and no instruction is started.
C4_KillSwitchStopsRun == [][killSwitch => ops' = ops /\ calls' = calls]_vars

TerminalOps == {"delete", "delete redirect", "delete talk", "redirect"}
Emptying == Current.mode \in {"empty", "merge"}

C5_Step ==
    /\ \A k \in (Len(ops) + 1)..Len(ops') :
          ops'[k].op \in TerminalOps
              => /\ pc = "bot" /\ todo = <<>> /\ Emptying
                 /\ catIndex[Current.old_cat] = {}
                 /\ ops'[k].op \in {"delete", "redirect"}
                       => ops'[k].cat = Current.old_cat
    /\ (pc = "bot" /\ todo = <<>> /\ pc' = "filter" /\ Emptying
        /\ catIndex[Current.old_cat] # {})
          => /\ ops' = ops /\ catState' = catState
             /\ idx' = idx + 1

\* C5: in empty and merge modes a delete or redirect happens only when the
\* bot has been through all members and the category then reports no
\* members; when it reports members nothing is deleted or redirected and
\* the run goes on to the next instruction.
C5_TerminalOnlyWhenEmpty == [][C5_Step]_vars

\* An empty or merge instruction is over, its category exists and still
\* reports members, and the instruction deleted or redirected nothing.
C5_Witness ==
    /\ pc = "filter" /\ idx >= 2 /\ Called(idx - 1)
    /\ Parsed[idx - 1].mode \in {"empty", "merge"}
    /\ exists(catState, Parsed[idx - 1].old_cat)
    /\ catIndex[Parsed[idx - 1].old_cat] # {}
    /\ \E k \in WritesOf(idx - 1) : ops[k].op = "edit"
    /\ \A k \in WritesOf(idx - 1) : ops[k].op \notin TerminalOps

BadCount(ins) ==
    \/ ins.mode = "empty" /\ Len(ins.new_cats) >= 1
    \/ ins.mode = "merge" /\ Len(ins.new_cats) = 0
    \/ ins.mode = "move" /\ Len(ins.new_cats) # 1

\* C6: an instruction whose number of targets does not fit its mode is
\* rejected by check_instruction and never executed.
C6_TargetCountFitsMode ==
    \A i \in Positions :
        BadCount(Parsed[i])
            => /\ ~check_instruction(Parsed[i], catState)
               /\ ~Called(i) /\ ~Remains(i)

AllPlain(cs) == \A c \in cs : catState[c].kind = "plain"

\* A finished run with an instruction that was dropped for its number of
\* targets alone.
C6_Witness ==
    /\ pc = "done"
    /\ \E i \in Positions :
          /\ BadCount(Parsed[i])
          /\ Parsed[i].old_cat \notin Range(Parsed[i].new_cats)
          /\ CatsOf(Parsed[i]) \cap skip = {}
          /\ AllPlain(CatsOf(Parsed[i]))
          /\ ~Called(i)

\* C7: in every mode an instruction whose old category is among its targets
\* is rejected and never executed.
C7_SourceNeverTarget ==
    \A i \in Positions :
        Parsed[i].old_cat \in Range(Parsed[i].new_cats)
            => /\ ~check_instruction(Parsed[i], catState)
               /\ ~Called(i) /\ ~Remains(i)

\* A finished run with a move or merge instruction, its targets plain
\* categories in a number that fits the mode, dropped because the old
\* category is among them.
C7_Witness ==
    /\ pc = "done"
    /\ \E i \in Positions :
          /\ Parsed[i].old_cat \in Range(Parsed[i].new_cats)
          /\ Parsed[i].mode \in {"move", "merge"}
          /\ ~BadCount(Parsed[i])
          /\ CatsOf(Parsed[i]) \cap skip = {}
          /\ AllPlain(CatsOf(Parsed[i]))
          /\ ~Called(i)

\* C8: when do_instruction is called for a merge instruction, every target
\* exists and none is a category redirect or a redirect page.
C8_MergeTargetsPlain ==
    [][(CallStep /\ Current.mode = "merge")
          => \A t \in Range(Current.new_cats) :
                exists(catState, t) /\ ~isCategoryRedirect(catState, t)
                /\ ~isRedirectPage(catState, t)]_vars

\* A finished run with a merge instruction dropped only because a target
\* is a redirect.
C8_Witness ==
    /\ pc = "done"
    /\ \E i \in Positions :
          /\ Parsed[i].mode = "merge"
          /\ Parsed[i].old_cat \notin Range(Parsed[i].new_cats)
          /\ CatsOf(Parsed[i]) \cap skip = {}
          /\ \E t \in Range(Parsed[i].new_cats) :
                catState[t].kind \in {"catredirect", "redirectpage"}
          /\ \A t \in Range(Parsed[i].new_cats) : exists(catState, t)
          /\ ~Called(i)

C10_RetainPreconditions ==
    [][/\ \A i \in Positions :
            (Parsed[i].mode = "retain"
             /\ (Parsed[i].action = "" \/ Parsed[i].result = ""
                 \/ Parsed[i].new_cats # <<>>))
                => /\ i \notin Range(calls')
                   /\ pc' = "done" => Parsed[i] \notin Range(instructions')
       /\ (CallStep /\ Current.mode = "retain")
            => /\ exists(catState, Current.old_cat)
               /\ Current.new_cats = <<>>
               /\ Current.action # "" /\ Current.result # ""]_vars

\* A finished run with a retain instruction on an existing category, with
\* no target, dropped because the discussion gave an action but no result.
C10_Witness ==
    /\ pc = "done"
    /\ \E i \in Positions :
          /\ Parsed[i].mode = "retain"
          /\ exists(catState, Parsed[i].old_cat)
          /\ Parsed[i].new_cats = <<>>
          /\ Parsed[i].action # "" /\ Parsed[i].result = ""
          /\ ~Called(i)

SourcePlain == catState[Current.old_cat].kind = "plain"
MoveOps == <<Op("move", Current.old_cat, None, idx),
             Op("strip", Current.new_cats[1], None, idx)>>

\* C11 as stated: when do_instruction is called for a move instruction whose
\* old category and target are both plain existing categories, the old
\* category is renamed to the target, the CfD template is removed from the
\* target and the pass over the members follows.
C11_MoveOntoExistingTarget ==
    [][(CallStep /\ Current.mode = "move" /\ SourcePlain
        /\ catState[Current.new_cats[1]].kind = "plain")
          => ops' = ops \o MoveOps /\ pc' = "bot"]_vars

\* C11 amended: when do_instruction is called for a move instruction whose
\* old category is a plain existing category, then, if the target does not
\* exist, the old category is renamed to the target, next the CfD template
\* is removed from the target, and the pass over the members of the old
\* category follows; if the target exists nothing is renamed or stripped
\* and only the pass follows.  No member page is edited for the instruction
\* before the rename.
C11_MoveRenamesToFreeTarget ==
    [][/\ (CallStep /\ Current.mode = "move" /\ SourcePlain)
            => /\ IF exists(catState, Current.new_cats[1])
                  THEN ops' = ops /\ catState' = catState
                  ELSE /\ ops' = ops \o MoveOps
                       /\ catState'[Current.new_cats[1]].kind = "plain"
                       /\ catState'[Current.old_cat].kind # "plain"
               /\ pc' = "bot"
               /\ todo' = Generator(Current.old_cat)
               /\ pageText' = pageText
       /\ \A k \in (Len(ops) + 1)..Len(ops') :
             ops'[k].op \in {"move", "strip"}
                => \A j \in 1..(k - 1) :
                      ops'[j].instr = ops'[k].instr
                         => ops'[j].op \in {"move", "strip"}]_vars

\* A move instruction has renamed its old category, stripped the target and
\* then edited a member page.
C11_Witness ==
    \E k \in 1..Len(ops) :
        /\ k >= 3
        /\ ops[k].op = "edit"
        /\ Parsed[ops[k].instr].mode = "move"
        /\ ops[k - 2].op = "move" /\ ops[k - 2].instr = ops[k].instr
        /\ ops[k - 1].op = "strip" /\ ops[k - 1].instr = ops[k].instr

\* The settle wait of the current instruction is over.
SettleStep == pc = "bot" /\ todo = <<>> /\ pc' = "filter"

\* C12: in merge mode, when after the settle wait the old category exists,
\* reports no members and is not a category redirect, it is made a category
\* redirect to the target if the redirect flag is set and there is exactly
\* one target, and is deleted otherwise.
C12_MergeRedirectOrDelete ==
    [][(/\ SettleStep /\ Current.mode = "merge"
        /\ exists(catState, Current.old_cat)
        /\ catIndex[Current.old_cat] = {}
        /\ ~isCategoryRedirect(catState, Current.old_cat))
          => IF Current.redirect /\ Len(Current.new_cats) = 1
             THEN /\ catState'[Current.old_cat]
                        = CatPage("catredirect", Current.new_cats[1])
                  /\ ops' = Append(ops, Op("redirect", Current.old_cat, None, idx))
             ELSE /\ catState'[Current.old_cat] = Absent
                  /\ Len(ops') > Len(ops)
                  /\ ops'[Len(ops) + 1] = Op("delete", Current.old_cat, None, idx)
                  /\ \A k \in 1..Len(ops') : ops'[k].op = "redirect" => k <= Len(ops)]_vars

\* A merge instruction marked REDIRECT with two targets has emptied and
\* deleted its old category.
C12_Witness ==
    \E k \in 1..Len(ops) :
        /\ ops[k].op = "delete"
        /\ Parsed[ops[k].instr].mode = "merge"
        /\ Parsed[ops[k].instr].redirect
        /\ Len(Parsed[ops[k].instr].new_cats) = 2

\* The terminal outcomes the writes op[1..] give instruction i.
Outcomes(op, P, i) ==
    {o \in {"deleted", "redirected", "renamed", "retained"} :
        \E k \in 1..Len(op) :
           /\ op[k].instr = i
           /\ \/ o = "deleted" /\ op[k].op = "delete"
              \/ o = "redirected" /\ op[k].op = "redirect"
              \/ o = "renamed" /\ op[k].op = "move"
              \/ o = "retained" /\ op[k].op = "strip" /\ P[i].mode = "retain"}

OutcomesOfMode(m) ==
    IF m = "empty" THEN {"deleted"}
    ELSE IF m = "merge" THEN {"deleted", "redirected"}
    ELSE IF m = "move" THEN {"renamed"}
    ELSE {"retained"}

\* C13 as stated: at the end of the run every executed instruction has
\* exactly one of the outcomes deleted, redirected, renamed, retained.
C13_ExactlyOneOutcome ==
    pc = "done"
        => \A i \in Range(calls) : Cardinality(Outcomes(ops, Parsed, i)) = 1

\* C13 amended: every executed instruction has at most one of the outcomes,
\* one that fits its mode; a retain instruction is retained as soon as it is
\* executed; and the writes of an instruction the run has left behind never
\* change.
C13_AtMostOneOutcome ==
    [][LET P == Parsed
       IN \A i \in Range(calls') :
             /\ Cardinality(Outcomes(ops', P, i)) <= 1
             /\ Outcomes(ops', P, i) \subseteq OutcomesOfMode(P[i].mode)
             /\ P[i].mode = "retain" => Outcomes(ops', P, i) = {"retained"}
             /\ i < idx
                  => {k \in 1..Len(ops') : ops'[k].instr = i}
                        = {k \in 1..Len(ops) : ops[k].instr = i}]_vars

\* A finished run of two executed instructions: the first edited member
\* pages and ended with no outcome, the second ended with one.
C13_Witness ==
    /\ pc = "done" /\ calls = <<1, 2>>
    /\ Outcomes(ops, Parsed, 1) = {}
    /\ \E k \in 1..Len(ops) : ops[k].instr = 1 /\ ops[k].op = "edit"
    /\ Cardinality(Outcomes(ops, Parsed, 2)) = 1

\* C14: executing a retain instruction edits no member page and deletes,
\* renames or redirects no category; it writes only the removal of the CfD
\* template from its category page and the note on that category's talk
\* page, and no other talk page changes.
C14_RetainWritesOnlyStripAndNote ==
    [][LET P == Parsed
       IN /\ (CallStep /\ Current.mode = "retain")
               => /\ catState' = catState
                  /\ pageText' = pageText
                  /\ pc' = "filter" /\ todo' = todo
                  /\ Len(ops') > Len(ops)
                  /\ ops'[Len(ops) + 1] = Op("strip", Current.old_cat, None, idx)
                  /\ \A c \in Cats : c # Current.old_cat => talk'[c] = talk[c]
          /\ \A k \in (Len(ops) + 1)..Len(ops') :
                P[ops'[k].instr].mode = "retain"
                   => /\ ops'[k].op \in {"strip", "note"}
                      /\ ops'[k].cat = P[ops'[k].instr].old_cat
                      /\ ops'[k].page = None]_vars

\* A retain instruction on a category that has member pages has removed
\* the template and added the note; the member pages are as they were.
C14_Witness ==
    /\ pc = "done"
    /\ \E k \in 1..Len(ops) :
          /\ ops[k].op = "note"
          /\ Parsed[ops[k].instr].mode = "retain"
          /\ catIndex[ops[k].cat] # {}
          /\ talk[ops[k].cat].notes # <<>>
    /\ pageText = [p \in Pages |-> InitText(p)]

\* The number of Old CfD notes of date d on the talk page t.
NotesOf(t, d) == Cardinality({k \in 1..Len(t.notes) : t.notes[k] = d})

\* C15: when a retain instruction is executed and the talk page carries an
\* Old CfD note of the date of the discussion page, the talk page is left
\* as it is and not saved; otherwise one note of that date is put before
\* the others; in both cases a further add_old_cfd for the same date
\* changes nothing, and a talk page that had at most one note of the date
\* has exactly one.
C15_OldCfdOncePerDate ==
    [][(CallStep /\ Current.mode = "retain")
          => LET c == Current.old_cat
                 d == DateOf(Current.cfd_page)
                 saved == \E k \in (Len(ops) + 1)..Len(ops') : ops'[k].op = "note"
             IN /\ IF talk[c].exists /\ NotesOf(talk[c], d) >= 1
                   THEN talk' = talk /\ ~saved
                   ELSE /\ talk'[c] = TalkPage(TRUE, <<d>> \o talk[c].notes)
                        /\ saved
                /\ add_old_cfd(talk'[c], Current.cfd_page) = talk'[c]
                /\ NotesOf(talk[c], d) <= 1 => NotesOf(talk'[c], d) = 1
                /\ \A e \in {1, OtherDate} :
                      e # d => NotesOf(talk'[c], e) = NotesOf(talk[c], e)]_vars

\* A retain instruction was executed on a category whose talk page had the
\* note of the discussion's date after a note of another date: the
\* template was removed and the talk page was not saved.
C15_Witness ==
    /\ pc = "done"
    /\ \E i \in Range(calls) :
          /\ Parsed[i].mode = "retain"
          /\ talk[Parsed[i].old_cat].notes
                = <<OtherDate, DateOf(Parsed[i].cfd_page)>>
          /\ \E k \in 1..Len(ops) : ops[k].instr = i /\ ops[k].op = "strip"
          /\ \A k \in 1..Len(ops) : ops[k].op # "note"

\* The categories the text links (not the [[:Category:X]] links).
CatsIn(text) == {text[i].cat : i \in {j \in 1..Len(text) : ~text[j].colon}}

\* The old category is gone from the text and every target is there.
Substituted(text, ins) ==
    /\ ins.old_cat \notin CatsIn(text)
    /\ Range(ins.new_cats) \subseteq CatsIn(text)

\* C16: when treat_page is applied to the text a first application saved,
\* in which the targets have taken the place of the old category, the text
\* does not change and nothing is saved.
C16_SecondPassNoChange ==
    [][(pc = "bot" /\ todo = <<1>> /\ Len(ops) = 1
        /\ Substituted(pageText[1], Current))
          => pageText' = pageText /\ ops' = ops]_vars

\* Both applications are over: the first saved a text in which the target
\* stands where the old category stood, next to a [[:Category:Old]] link
\* that is left alone, and the second saved nothing.
C16_Witness ==
    /\ pc = "bot" /\ todo = <<>> /\ Len(ops) = 1
    /\ Current.new_cats # <<>>
    /\ Substituted(pageText[1], Current)
    /\ \E i \in 1..Len(pageText[1]) :
          pageText[1][i].colon /\ pageText[1][i].cat = Current.old_cat

\* The first application of treat_page to page 1, for one target.
FirstPass == pc = "bot" /\ todo = <<1, 1>> /\ Len(Current.new_cats) = 1

\* The sort keys with which the text links category c.
KeysOf(text, c) ==
    {text[i].key : i \in {j \in 1..Len(text) : ~text[j].colon /\ text[j].cat = c}}

\* The position of the last link to category c in the text (0: none).
LastLink(text, c) ==
    Max({0} \cup {j \in 1..Len(text) : ~text[j].colon /\ text[j].cat = c})

\* C17 as stated: when treat_page works on a page for an instruction with
\* one target and the page links the old category with a sort key, the
\* saved page links the target with that sort key.
C17_SortKeyKept ==
    [][FirstPass
          => \A k \in KeysOf(pageText[1], Current.old_cat) :
                k # 0 => k \in KeysOf(pageText'[1], Current.new_cats[1])]_vars

\* C17 amended: when treat_page works on a page for an instruction with one
\* target, the page does not link the target yet and its last link to the
\* old category has a sort key, the saved page links the target with that
\* sort key, in the place of that link, and is otherwise the same.
C17_SortKeyKeptOnRename ==
    [][(/\ FirstPass
        /\ Current.new_cats[1] \notin CatsIn(pageText[1])
        /\ LastLink(pageText[1], Current.old_cat) # 0)
          => LET at == LastLink(pageText[1], Current.old_cat)
             IN /\ pageText'[1] = [pageText[1] EXCEPT
                                      ![at].cat = Current.new_cats[1]]
                /\ pageText'[1][at].key = pageText[1][at].key
                /\ pageText[1][at].key
                      \in KeysOf(pageText'[1], Current.new_cats[1])
                /\ Len(ops') = Len(ops) + 1]_vars

\* The first application has renamed a link with a sort key: the page links
\* the target with the key and no longer links the old category.
C17_Witness ==
    /\ pc = "bot" /\ todo = <<1>> /\ Len(ops) = 1
    /\ Len(Current.new_cats) = 1
    /\ Len(pageText[1]) = 1
    /\ pageText[1][1] = [cat |-> Current.new_cats[1], key |-> 1, colon |-> FALSE]

\* The locals of _parse_section before line k of the section is read.
BeforeLine(section, k) ==
    parse_section_lines([cfd_page |-> NoCfd, cfd_prefix |-> {},
                         cfd_suffix |-> {}, out |-> <<>>, raised |-> FALSE],
                        ModeOf(section.title),
                        SubSeq(section.lines, 1, k - 1), cfdtext)

Disabled(line) == "NO BOT" \in _parse_line(line).prefix

\* C18: a line of a mode section whose prefix contains NO BOT appends no
\* instruction, whatever categories and link to a discussion it carries;
\* a page all of whose lines are so marked yields no instruction, and
\* nothing is executed or written for it.
C18_NoBotLineYieldsNothing ==
    /\ \A s \in 1..Len(wpage) : \A k \in 1..Len(wpage[s].lines) :
          (ModeOf(wpage[s].title) # "" /\ Disabled(wpage[s].lines[k]))
             => parse_section_line(BeforeLine(wpage[s], k),
                                   ModeOf(wpage[s].title),
                                   wpage[s].lines[k], cfdtext).out
                   = BeforeLine(wpage[s], k).out
    /\ (\A s \in 1..Len(wpage) : \A k \in 1..Len(wpage[s].lines) :
           Disabled(wpage[s].lines[k]))
          => instructions = <<>> /\ calls = <<>> /\ ops = <<>>

\* A finished run on a section of two lines: the first gave the one
\* instruction of the page, which was executed; the second, marked NO BOT,
\* names another category and relies on the first line's link to the
\* discussion.
C18_Witness ==
    /\ pc = "done"
    /\ Len(wpage) = 1 /\ Len(wpage[1].lines) = 2
    /\ ~Disabled(wpage[1].lines[1])
    /\ Disabled(wpage[1].lines[2])
    /\ _parse_line(wpage[1].lines[2]).old_cat \notin {None, Parsed[1].old_cat}
    /\ Len(Parsed) = 1
    /\ calls = <<1>> /\ ops # <<>>

\* The run passes over the instruction at idx: it is in the skip-set or
\* check_instruction fails.
Dropping ==
    /\ AtInstruction
    /\ \/ CatsOf(Current) \cap skip # {}
       \/ ~check_instruction(Current, catState)
    /\ idx' # idx \/ pc' # pc

\* C19: an instruction in the skip-set or failing check_instruction
\* writes nothing to the wiki and the run goes on to the next instruction;
\* no write ever belongs to an instruction that was not executed, and the
\* run ends only after the last instruction.
C19_DroppedInstructionHarmless ==
    [][/\ Dropping
            => /\ ops' = ops /\ calls' = calls
               /\ catState' = catState /\ pageText' = pageText
               /\ talk' = talk
               /\ idx' = idx + 1 /\ pc' = "filter"
       /\ \A k \in 1..Len(ops') : ops'[k].instr \in Range(calls')
       /\ pc' = "done" => idx' = Len(Parsed) + 1]_vars

\* A finished run of two instructions: check_instruction failed for the
\* first, which wrote nothing; the second was executed and wrote to the
\* wiki.
C19_Witness ==
    /\ pc = "done" /\ Len(Parsed) = 2
    /\ CatsOf(Parsed[1]) \cap skip = {}
    /\ 1 \notin Range(calls)
    /\ ops # <<>>
    /\ \A k \in 1..Len(ops) : ops[k].instr = 2

\* C20: when the page gives the same instruction twice (same mode, old
\* category, targets and discussion) and nothing else, one copy is executed
\* and is the final list, unless check_instruction fails for it.
C20_DuplicateRunsOnce ==
    (pc = "done" /\ Len(Parsed) = 2 /\ Parsed[1] = Parsed[2])
        => \/ Len(calls) = 1 /\ instructions = <<Parsed[1]>>
           \/ calls = <<>> /\ ~check_instruction(Parsed[1], catState)

\* The last line, up to line k of the section, with a link to a discussion
\* of its own (0: none).
RefLine(section, k) ==
    Max({0} \cup {j \in 1..k : _parse_line(section.lines[j]).cfd_page # NoCfd})

RaisedBy(section, k) == \E j \in 1..k : _parse_line(section.lines[j]).raised

\* Line k of the section gives an instruction: it names a category, a line
\* of the section up to it links a discussion, neither that line nor this
\* one is marked NO BOT, and no line up to it has raised.
Yields(section, k) ==
    /\ ModeOf(section.title) # ""
    /\ _parse_line(section.lines[k]).old_cat # None
    /\ RefLine(section, k) # 0
    /\ ~RaisedBy(section, k)
    /\ "NO BOT" \notin _parse_line(section.lines[k]).prefix
    /\ "NO BOT" \notin _parse_line(section.lines[RefLine(section, k)]).prefix

YieldsIn(section, k) ==
    Cardinality({j \in 1..k : Yields(section, j)})

RECURSIVE YieldsUpTo(_)
YieldsUpTo(s) ==
    IF s = 0 THEN 0
    ELSE YieldsUpTo(s - 1) + YieldsIn(wpage[s], Len(wpage[s].lines))

\* C21: once the page is parsed, every line that names a category and has
\* no link to a discussion of its own has given an instruction with the
\* discussion of the last earlier line of its section that had one; a line
\* with no such line in its own section has given none, whatever the
\* sections before it linked.
C21_DiscussionCarriedInSection ==
    pc = "collect"
        => /\ Len(instructions) = YieldsUpTo(Len(wpage))
           /\ \A s \in 1..Len(wpage) : \A k \in 1..Len(wpage[s].lines) :
                 Yields(wpage[s], k)
                    => LET ins == instructions[YieldsUpTo(s - 1)
                                               + YieldsIn(wpage[s], k)]
                           lr == _parse_line(wpage[s].lines[k])
                           ref == _parse_line(
                                     wpage[s].lines[RefLine(wpage[s], k)]).cfd_page
                       IN /\ ins.old_cat = lr.old_cat
                          /\ ins.cfd_page
                                = find_discussion(ref, cfdtext[ref.page], lr.old_cat)

\* Parsed: a section of three lines, the first linking the whole discussion
\* page, the second a section of it, the third no discussion; the third
\* line's instruction has the second line's discussion.
C21_Witness ==
    /\ pc = "collect"
    /\ Len(wpage) = 1 /\ Len(wpage[1].lines) = 3
    /\ _parse_line(wpage[1].lines[1]).cfd_page = CfdRef(1, None)
    /\ _parse_line(wpage[1].lines[2]).cfd_page = CfdRef(1, OtherTitle)
    /\ _parse_line(wpage[1].lines[3]).cfd_page = NoCfd
    /\ Len(instructions) = 3
    /\ instructions[3].cfd_page = CfdRef(1, OtherTitle)

\* The page has one line, linking the whole discussion page, and is parsed.
OneLineParsed ==
    /\ pc = "collect"
    /\ Len(wpage) = 1 /\ Len(wpage[1].lines) = 1
    /\ _parse_line(wpage[1].lines[1]).cfd_page = CfdRef(1, None)
    /\ Len(instructions) = 1

\* The sections of the discussion page that match the category by their
\* heading, and by their heading or their nomination.
HeadingMatches(text, category) ==
    {i \in 1..Len(text) : text[i].title = category}

Matches(text, category) ==
    HeadingMatches(text, category)
    \cup {i \in 1..Len(text) : text[i].parts >= 3 /\ category \in text[i].nom}

\* C22 (as stated): when some section of the discussion page is headed by
\* the category's title, the discussion found is that section, whatever the
\* nominations of the sections before it mention.
C22_HeadingMatchFirst ==
    OneLineParsed
        => LET old == instructions[1].old_cat
           IN HeadingMatches(cfdtext[1], old) # {}
                => instructions[1].cfd_page = CfdRef(1, old)

\* C22 (amended): the discussion found is the first section, in page order,
\* that is headed by the category's title or mentions the category in its
\* nomination; the whole page when there is none.  A heading match is
\* returned unless a section before it mentions the category.
C22_FirstMatchingSection ==
    OneLineParsed
        => LET old == instructions[1].old_cat
               hits == Matches(cfdtext[1], old)
           IN instructions[1].cfd_page
                = IF hits = {} THEN CfdRef(1, None)
                  ELSE CfdRef(1, cfdtext[1][CHOOSE i \in hits :
                                               \A j \in hits : i <= j].title)

\* Parsed: the second section is headed by the category, the first mentions
\* it in its nomination, and the instruction has the first.
C22_Witness ==
    /\ OneLineParsed
    /\ Len(cfdtext[1]) = 2
    /\ cfdtext[1][2].title = instructions[1].old_cat
    /\ cfdtext[1][1].title = OtherTitle
    /\ cfdtext[1][1].parts = 3
    /\ instructions[1].old_cat \in cfdtext[1][1].nom
    /\ instructions[1].cfd_page = CfdRef(1, OtherTitle)

\* C23: when treat_page works on a page whose text has no category link to
\* the old category, the text stays as it is, nothing is saved, and the bot
\* goes on to the next page of its generator.
C23_NotFoundLeavesPage ==
    [][(pc = "bot" /\ todo # <<>>
        /\ Current.old_cat \notin CatsIn(pageText[Head(todo)]))
          => /\ pageText' = pageText
             /\ ops' = ops
             /\ pc' = "bot"
             /\ todo' = Tail(todo)]_vars

\* Both pages of the generator have been passed over: the text mentions the
\* old category only as [[:Category:Old]], and nothing was saved.
C23_Witness ==
    /\ pc = "bot" /\ todo = <<>> /\ ops = <<>>
    /\ \E i \in 1..Len(pageText[1]) :
          pageText[1][i].colon /\ pageText[1][i].cat = Current.old_cat

\* treat_page removes the old link and inserts: the first application, on a
\* page that links the old category, for several targets or for one target
\* the page links already.
Inserting ==
    /\ pc = "bot" /\ todo = <<1, 1>>
    /\ Current.old_cat \in CatsIn(pageText[1])
    /\ \/ Len(Current.new_cats) > 1
       \/ /\ Len(Current.new_cats) = 1
          /\ Current.new_cats[1] \in CatsIn(pageText[1])

\* The number of category links to c in the text.
LinksTo(text, c) ==
    Cardinality({j \in 1..Len(text) : ~text[j].colon /\ text[j].cat = c})

\* C24: when treat_page works on a page for several targets, or for one
\* target the page links already, the saved text is the old text without
\* the old link and with links to the targets the page did not link, put
\* where the old link was: every target is linked, a target linked before
\* has as many links as before, and the links that stay are in their old
\* order.
C24_RemoveAndInsert ==
    [][Inserting
          => LET text == pageText[1]
                 saved == pageText'[1]
                 at == LastLink(text, Current.old_cat)
                 missing == Range(Current.new_cats) \ CatsIn(text)
                 added == Cardinality({i \in 1..Len(Current.new_cats) :
                                           Current.new_cats[i] \in missing})
                 kept == SelectSeq(text, LAMBDA l : l # text[at])
                 from == Len(SelectSeq(SubSeq(text, 1, at),
                                       LAMBDA l : l # text[at]))
             IN /\ Range(Current.new_cats) \subseteq CatsIn(saved)
                /\ \A c \in Range(Current.new_cats) \cap CatsIn(text) :
                      LinksTo(saved, c) = LinksTo(text, c)
                /\ SelectSeq(saved, LAMBDA l : l.colon \/ l.cat \notin missing)
                      = kept
                /\ Len(saved) = Len(kept) + added
                /\ \A i \in (from + 1)..(from + added) :
                      ~saved[i].colon /\ saved[i].cat \in missing
                /\ text[at] \notin Range(saved)
                /\ Len(ops') = Len(ops) + 1]_vars

\* The first application, for two targets, is over on a page that linked
\* the old category and, with a sort key, the target: the old link is gone
\* and no link was added.
C24_Witness ==
    /\ pc = "bot" /\ todo = <<1>> /\ Len(ops) = 1
    /\ Len(Current.new_cats) = 2
    /\ Len(pageText[1]) = 1
    /\ pageText[1][1] = [cat |-> Current.new_cats[1], key |-> 1, colon |-> FALSE]

\* C30: when treat_page saves a page on which it found a link to the old
\* category, the saved text has no category link to the old category.
C30_NoOldLinkAfterSave ==
    [][(pc = "bot" /\ todo # <<>>
        /\ Current.old_cat \in CatsIn(pageText[Head(todo)]))
          => Current.old_cat \notin CatsIn(pageText'[Head(todo)])]_vars

\* The page has one retain line, with a link to the discussion page, and is
\* parsed.
RetainLineParsed ==
    /\ pc = "collect"
    /\ Len(wpage) = 1 /\ wpage[1].title = {"retain"}
    /\ Len(wpage[1].lines) = 1
    /\ Len(instructions) = 1

\* C25: the result and action of a retain line come from the first rule
\* that applies to its suffix: "no consensus for/to <action>", else
\* "not <word>", else the word keep (result keep, action delete), and from
\* the discussion found only when none of the three applies.
C25_RetainRuleOrder ==
    RetainLineParsed
        => LET suffix == _parse_line(wpage[1].lines[1]).suffix
               ins == instructions[1]
           IN /\ "no consensus" \in suffix
                    => ins.result = "no consensus" /\ ins.action = "delete"
              /\ ("no consensus" \notin suffix /\ "not" \in suffix)
                    => ins.result = "not deleted" /\ ins.action = "delete"
              /\ ({"no consensus", "not"} \cap suffix = {} /\ "keep" \in suffix)
                    => ins.result = "keep" /\ ins.action = "delete"
              /\ {"no consensus", "not", "keep"} \cap suffix = {}
                    => /\ ins.result = get_result(ins.cfd_page, cfdtext[1])
                       /\ ins.action
                             = get_action(ins.cfd_page, cfdtext[1], ins.old_cat)

\* Parsed: the suffix has "not <word>" and the word keep, the discussion
\* was closed as keep and proposes a renaming; the instruction has the
\* result and action of "not <word>".
C25_Witness ==
    /\ RetainLineParsed
    /\ _parse_line(wpage[1].lines[1]).suffix = {"not", "keep"}
    /\ get_result(instructions[1].cfd_page, cfdtext[1]) = "keep"
    /\ get_action(instructions[1].cfd_page, cfdtext[1],
                  instructions[1].old_cat) = "renaming"
    /\ instructions[1].result = "not deleted"
    /\ instructions[1].action = "delete"

\* Category c is the old category of instruction j and occurs, as old
\* category or as target, in an instruction before it.
OldAfterUse(c, j) ==
    /\ instructions[j].old_cat = c
    /\ \E k \in 1..(j - 1) : c \in CatsOf(instructions[k])

\* C26: after the first loop of _check_run a category is in the skip-set
\* exactly when it is the old category of an instruction and occurs in an
\* instruction earlier in the list.  A category that is only ever a target
\* is not in it, however many instructions share it; a category that is
\* the old category of one instruction and a target of later ones only is
\* not in it, while the same two instructions in the other order put it in.
C26_SkipNeedsEarlierUse ==
    pc = "filter"
        => /\ \A c \in LineCats :
                 c \in skip <=> \E j \in 1..Len(instructions) : OldAfterUse(c, j)
           /\ \A c \in LineCats :
                 (\A j \in 1..Len(instructions) : instructions[j].old_cat # c)
                    => c \notin skip
           /\ \A i \in 1..Len(instructions), j \in 1..Len(instructions) :
                 (i < j /\ instructions[j].old_cat \in Range(instructions[i].new_cats))
                    => instructions[j].old_cat \in skip
           /\ \A i \in 1..Len(instructions) :
                 LET c == instructions[i].old_cat
                 IN (\A k \in 1..Len(instructions) :
                        (k < i => c \notin CatsOf(instructions[k]))
                        /\ (k > i => c # instructions[k].old_cat))
                      => c \notin skip

\* The skip-set is empty for two instructions with different old
\* categories and the same target.
C26_Witness ==
    /\ pc = "filter" /\ skip = {}
    /\ Len(instructions) = 2
    /\ instructions[1].old_cat # instructions[2].old_cat
    /\ instructions[1].new_cats = instructions[2].new_cats
    /\ Len(instructions[1].new_cats) = 1
    /\ instructions[1].new_cats[1]
          \notin {instructions[1].old_cat, instructions[2].old_cat}

\* A target of the instruction is not there or is a redirect.
TargetGone(instruction, st) ==
    \E t \in Range(instruction.new_cats) : ~exists(st, t) \/ is_redirect(st, t)

\* C27: do_instruction is called for an instruction only in a step in which
\* check_instruction holds of the wiki as the instructions before it have
\* left it, and only the instruction called last writes to the wiki; a
\* merge instruction one of whose targets is, by then, not there or a
\* redirect is passed over without a write.
C27_CheckedOnCurrentWiki ==
    [][/\ CallStep => check_instruction(Current, catState) /\ todo = <<>>
       /\ \A k \in (Len(ops) + 1)..Len(ops') :
             calls' # <<>> /\ ops'[k].instr = calls'[Len(calls')]
       /\ (AtInstruction /\ Current.mode = "merge"
           /\ TargetGone(Current, catState))
             => /\ calls' = calls /\ ops' = ops
                /\ catState' = catState /\ pageText' = pageText
                /\ talk' = talk]_vars

\* The run is over: the first instruction has deleted the category that is
\* the target of the second, a merge that passed the conflict test and
\* would have passed check_instruction on the wiki as it was; the second
\* was not executed.
C27_Witness ==
    /\ pc = "done"
    /\ Len(Parsed) = 2
    /\ Parsed[2].mode = "merge"
    /\ CatsOf(Parsed[2]) \cap skip = {}
    /\ check_instruction(Parsed[2], [c \in Cats |-> Plain])
    /\ calls = <<1>>
    /\ \E k \in 1..Len(ops) :
          /\ ops[k].op = "delete" /\ ops[k].instr = 1
          /\ ops[k].cat \in Range(Parsed[2].new_cats)
    /\ \A k \in 1..Len(ops) : ops[k].instr = 1

\* C28: the instructions of a working page are built only when its edit
\* protection is at level sysop; for a page with any other protection, or
\* none, no instruction is ever built, do_instruction is never called and
\* no page is edited, deleted, moved or redirected.
C28_OnlyProtectedPagesRun ==
    [][/\ instructions' # instructions
          => edit_protection(protection) = "sysop"
       /\ edit_protection(protection) # "sysop"
          => /\ instructions' = <<>> /\ calls' = <<>> /\ ops' = <<>>
             /\ catState' = catState /\ pageText' = pageText
             /\ talk' = talk]_vars

\* main is over for a page that is protected against moves only: its one
\* line would have passed check_instruction, and nothing was built or
\* written.
C28_Witness ==
    /\ pc = "unprotected"
    /\ protection = {<<"move", "sysop">>}
    /\ Len(Parsed) = 1
    /\ check_instruction(Parsed[1], catState)
    /\ instructions = <<>> /\ calls = <<>> /\ ops = <<>>

\* The first line of the section that raises (0: none), and the section
\* cut before it.
FirstRaise(section) ==
    LET R == {k \in 1..Len(section.lines) : _parse_line(section.lines[k]).raised}
    IN IF R = {} THEN 0 ELSE CHOOSE k \in R : \A j \in R : k <= j

CutAtRaise(section) ==
    IF FirstRaise(section) = 0 THEN section
    ELSE [section EXCEPT !.lines = SubSeq(@, 1, FirstRaise(section) - 1)]

ParsedCut == parse_sections([s \in 1..Len(wpage) |-> CutAtRaise(wpage[s])], cfdtext)

\* C29: the instructions _check_run works on are those of the page with
\* every section cut before its first line that raises: the lines after it
\* give nothing, the lines before it and the other sections give what they
\* give without it; and each of them that passes the conflict test and
\* check_instruction is executed.
C29_RaiseEndsItsSectionOnly ==
    [][/\ pc' \in {"collect", "filter", "bot"} => instructions' = ParsedCut
       /\ (/\ AtInstruction
           /\ CatsOf(Current) \cap skip = {}
           /\ check_instruction(Current, catState)
           /\ pc' # pc \/ idx' # idx)
             => CallStep /\ Current = ParsedCut[idx]]_vars

\* The run is over: the second line of the first section raised, and the
\* line before it and the line of the second section were both executed.
C29_Witness ==
    /\ pc = "done"
    /\ Len(wpage) = 2 /\ Len(wpage[1].lines) = 2
    /\ FirstRaise(wpage[1]) = 2
    /\ Len(ParsedCut) = 2
    /\ calls = <<1, 2>>
    /\ \E k \in 1..Len(ops) : ops[k].instr = 2

=============================================================================
